---- MODULE Spec2Model ----
(***************************************************************************)
(* Request execution and result normalisation of the Surpay SDK:           *)
(* SurpayClient.request / handleFetchError (client with deadline),         *)
(* toResult / statusToCode (utils/result.ts) and camelToSnake              *)
(* (utils/case.ts).                                                        *)
(***************************************************************************)
EXTENDS Integers, Sequences, FiniteSets, TLC

(***************************************************************************)
(* Bounds of the model.                                                    *)
(***************************************************************************)
\* number of calls issued, one after the other, on the client
MaxCalls == 2

(***************************************************************************)
(* JavaScript values.  Every value is a record of the same shape: t is the *)
(* type tag, s the payload of a scalar, keys/items the entries of an       *)
(* object (in insertion order) or the elements of an array.  A key is a    *)
(* sequence of one-character strings.                                      *)
(***************************************************************************)
JUndef == [t |-> "undefined", s |-> "", keys |-> <<>>, items |-> <<>>]
JNull == [t |-> "null", s |-> "", keys |-> <<>>, items |-> <<>>]
JStr(s) == [t |-> "string", s |-> s, keys |-> <<>>, items |-> <<>>]
JNum(s) == [t |-> "number", s |-> s, keys |-> <<>>, items |-> <<>>]
JBool(s) == [t |-> "boolean", s |-> s, keys |-> <<>>, items |-> <<>>]
JArr(items) == [t |-> "array", s |-> "", keys |-> <<>>, items |-> items]
JObj(keys, items) == [t |-> "object", s |-> "", keys |-> keys, items |-> items]
\* the literal {}
EmptyObject == JObj(<<>>, <<>>)
\* values JSON.stringify cannot serialise: a circular structure (TypeError)
\* and an object whose toJSON throws a value that is no Error
JCircular == [t |-> "circular", s |-> "", keys |-> <<>>, items |-> <<>>]
JThrowing == [t |-> "throwing", s |-> "", keys |-> <<>>, items |-> <<>>]

\* an optional value: <<>> is absent (null / undefined), <<v>> is v
None == <<>>
Some(v) == <<v>>

\* JavaScript truthiness, as used by the || operator
Truthy(v) ==
    /\ v.t \notin {"undefined", "null"}
    /\ ~(v.t = "string" /\ v.s = "")
    /\ ~(v.t = "number" /\ v.s = "0")
    /\ ~(v.t = "boolean" /\ v.s = "false")

\* the largest index i of ks with ks[i] = k, 0 when there is none
RECURSIVE LastIndexOf(_, _)
LastIndexOf(ks, k) ==
    IF ks = <<>> THEN 0
    ELSE IF ks[Len(ks)] = k THEN Len(ks)
    ELSE LastIndexOf(SubSeq(ks, 1, Len(ks) - 1), k)

\* v?.k : property access with optional chaining
PropOf(v, k) ==
    IF v.t = "object" /\ LastIndexOf(v.keys, k) > 0
        THEN v.items[LastIndexOf(v.keys, k)]
        ELSE JUndef

KeyId == <<"i", "d">>
KeyProjects == <<"p", "r", "o", "j", "e", "c", "t", "s">>
KeyMessage == <<"m", "e", "s", "s", "a", "g", "e">>
KeyCode == <<"c", "o", "d", "e">>
KeyCustomerId == <<"c", "u", "s", "t", "o", "m", "e", "r", "I", "d">>
KeyCustomer_Id == <<"c", "u", "s", "t", "o", "m", "e", "r", "_", "i", "d">>
KeyTags == <<"t", "a", "g", "s">>
KeyIsDefault == <<"i", "s", "D", "e", "f", "a", "u", "l", "t">>
KeyIs_Default == <<"i", "s", "_", "d", "e", "f", "a", "u", "l", "t">>

(***************************************************************************)
(* utils/case.ts                                                           *)
(***************************************************************************)
LowerLetters ==
    {"a", "b", "c", "d", "e", "f", "g", "h", "i", "j", "k", "l", "m",
     "n", "o", "p", "q", "r", "s", "t", "u", "v", "w", "x", "y", "z"}
UpperLetters ==
    {"A", "B", "C", "D", "E", "F", "G", "H", "I", "J", "K", "L", "M",
     "N", "O", "P", "Q", "R", "S", "T", "U", "V", "W", "X", "Y", "Z"}

\* String.prototype.toLowerCase on one character
ToLowerChar(c) ==
    CASE c = "A" -> "a" [] c = "B" -> "b" [] c = "C" -> "c" [] c = "D" -> "d"
      [] c = "E" -> "e" [] c = "F" -> "f" [] c = "G" -> "g" [] c = "H" -> "h"
      [] c = "I" -> "i" [] c = "J" -> "j" [] c = "K" -> "k" [] c = "L" -> "l"
      [] c = "M" -> "m" [] c = "N" -> "n" [] c = "O" -> "o" [] c = "P" -> "p"
      [] c = "Q" -> "q" [] c = "R" -> "r" [] c = "S" -> "s" [] c = "T" -> "t"
      [] c = "U" -> "u" [] c = "V" -> "v" [] c = "W" -> "w" [] c = "X" -> "x"
      [] c = "Y" -> "y" [] c = "Z" -> "z" [] OTHER -> c

\* mutant of ReplaceBoundaries: /([a-z])([A-Z0-9])/g, a digit is split off
\* like an uppercase letter
RECURSIVE ReplaceBoundariesDigits(_, _)
ReplaceBoundariesDigits(str, i) ==
    IF i > Len(str) THEN <<>>
    ELSE IF /\ i < Len(str)
            /\ str[i] \in LowerLetters
            /\ str[i + 1] \in UpperLetters \cup {"0", "1", "2", "3", "4", "5", "6", "7", "8", "9"}
        THEN <<str[i], "_", str[i + 1]>> \o ReplaceBoundariesDigits(str, i + 2)
        ELSE <<str[i]>> \o ReplaceBoundariesDigits(str, i + 1)

\* mutant of ReplaceBoundaries: /([A-Z])/g with '_$1', an underscore before
\* every uppercase letter
RECURSIVE ReplaceBoundariesEveryUpper(_, _)
ReplaceBoundariesEveryUpper(str, i) ==
    IF i > Len(str) THEN <<>>
    ELSE IF str[i] \in UpperLetters
        THEN <<"_", str[i]>> \o ReplaceBoundariesEveryUpper(str, i + 1)
        ELSE <<str[i]>> \o ReplaceBoundariesEveryUpper(str, i + 1)

\* str.replace(/([a-z])([A-Z])/g, '$1_$2'): the matches are found left to
\* right and do not overlap; i is the position the scan has reached
RECURSIVE ReplaceBoundaries(_, _)
ReplaceBoundaries(str, i) ==
    IF i > Len(str) THEN <<>>
    ELSE IF i < Len(str) /\ str[i] \in LowerLetters /\ str[i + 1] \in UpperLetters
        THEN <<str[i], "_", str[i + 1]>> \o ReplaceBoundaries(str, i + 2)
        ELSE <<str[i]>> \o ReplaceBoundaries(str, i + 1)

stringToSnakeCase(str) ==
    LET replaced == ReplaceBoundaries(str, 1)
    IN  [i \in 1..Len(replaced) |-> ToLowerChar(replaced[i])]

\* mutant of SetProp: a key the object already has keeps its first value
SetPropKeepsFirst(obj, k, v) ==
    IF LastIndexOf(obj.keys, k) > 0
        THEN obj
        ELSE [obj EXCEPT !.keys = Append(@, k), !.items = Append(@, v)]

\* result[k] = v on an object under construction: an existing key keeps its
\* position and takes the new value, a new key is appended
SetProp(obj, k, v) ==
    IF LastIndexOf(obj.keys, k) > 0
        THEN [obj EXCEPT !.items[LastIndexOf(obj.keys, k)] = v]
        ELSE [obj EXCEPT !.keys = Append(@, k), !.items = Append(@, v)]

RECURSIVE camelToSnake(_)
RECURSIVE camelToSnakeEntries(_, _, _)
\* the for loop over Object.keys(input), from entry i on
camelToSnakeEntries(input, i, result) ==
    IF i > Len(input.keys) THEN result
    ELSE camelToSnakeEntries(input, i + 1,
            SetProp(result, stringToSnakeCase(input.keys[i]),
                    camelToSnake(input.items[i])))

\* mutant of camelToSnake: an array is returned as it is
camelToSnakeKeepsArrays(input) ==
    IF input.t \in {"null", "undefined"} THEN input
    ELSE IF input.t = "array" THEN input
    ELSE IF input.t = "object"
        THEN camelToSnakeEntries(input, 1, EmptyObject)
    ELSE input

\* camelToSnake(input)
camelToSnake(input) ==
    IF input.t \in {"null", "undefined"} THEN input
    ELSE IF input.t = "array"
        THEN [input EXCEPT !.items =
                [i \in 1..Len(input.items) |-> camelToSnake(input.items[i])]]
    ELSE IF input.t = "object"
        THEN camelToSnakeEntries(input, 1, EmptyObject)
    ELSE input

(***************************************************************************)
(* Errors and Results (types.ts, errors.ts)                                *)
(***************************************************************************)
\* a thrown JavaScript value: cls is its class, "NonError" for a thrown
\* value that is no instance of Error
Thrown(cls, name, message) == [cls |-> cls, name |-> name, message |-> message]
InstanceOfError(error) == error.cls # "NonError"
InstanceOfDOMException(error) == error.cls = "DOMException"

\* the reason AbortSignal.timeout() aborts with
TimeoutDOMException ==
    Thrown("DOMException", "TimeoutError", "The operation was aborted due to timeout")
\* what fetch() rejects with when no response is received
NetworkFailures ==
    {Thrown("TypeError", "TypeError", "fetch failed"),
     Thrown("TypeError", "TypeError", "getaddrinfo ENOTFOUND pay.surgent.dev")}
\* what reading the body rejects with when the connection breaks
BodyFailure == Thrown("TypeError", "TypeError", "terminated")
CircularFailure ==
    Thrown("TypeError", "TypeError", "Converting circular structure to JSON")
NonErrorFailure == Thrown("NonError", "", "")

SurpayError(message, code, statusCode) ==
    [message |-> message, code |-> code, statusCode |-> statusCode]

\* Success<T> and Failure<E>; a null data is JNull, a null error is None
Success(data, statusCode) ==
    [data |-> data, error |-> None, statusCode |-> statusCode]
\* mutant of Failure: the Result does not repeat the status of its error
FailureStatusDropped(error, statusCode) ==
    [data |-> JNull, error |-> Some(error), statusCode |-> 0]

Failure(error, statusCode) ==
    [data |-> JNull, error |-> Some(error), statusCode |-> statusCode]

\* how an async function settles: its promise resolves with a Result or
\* rejects with a thrown value
Resolved(result) == [settled |-> "resolved", result |-> Some(result), thrown |-> None]
Rejected(error) == [settled |-> "rejected", result |-> None, thrown |-> Some(error)]

(***************************************************************************)
(* Response bodies and JSON.parse                                          *)
(***************************************************************************)
TextNotJson == "not json"
TextNull == "null"
TextEmptyObject == "{}"
TextEmptyArray == "[]"
TextCustomer == "{\"customerId\":\"cus_1\",\"tags\":[\"a\",\"b\"]}"
TextSnake == "{\"customer_id\":\"cus_1\"}"
TextList == "[{\"isDefault\":true},{\"isDefault\":false}]"
TextError == "{\"message\":\"Customer not found\",\"code\":\"customer_not_found\"}"
TextErrorCodeOnly == "{\"code\":\"customer_not_found\"}"
TextErrorMessageOnly == "{\"message\":\"Customer not found\"}"
TextErrorEmpty == "{\"message\":\"\",\"code\":\"\"}"

\* bodies of GET /projects
TextProjectsList == "[{\"id\":\"p_1\"}]"
TextProjectsWrapped == "{\"projects\":[{\"id\":\"p_1\"}]}"
TextProjectsNull == "{\"projects\":null}"
TextProjectsString == "{\"projects\":\"none\"}"
TextProjectsObject == "{\"projects\":{\"id\":\"p_1\"}}"
TextString == "\"ok\""

BodyTexts ==
    {"", TextNotJson, TextNull, TextEmptyObject, TextEmptyArray, TextCustomer,
     TextSnake, TextList, TextError, TextErrorCodeOnly, TextErrorMessageOnly,
     TextErrorEmpty}

ParseOk(value) == [ok |-> TRUE, value |-> value]
ParseError == [ok |-> FALSE, value |-> JUndef]

\* JSON.parse(text): the parsed value, or a SyntaxError
JsonParse(text) ==
    CASE text = TextNull -> ParseOk(JNull)
      [] text = TextEmptyObject -> ParseOk(EmptyObject)
      [] text = TextEmptyArray -> ParseOk(JArr(<<>>))
      [] text = TextCustomer ->
            ParseOk(JObj(<<KeyCustomerId, KeyTags>>,
                         <<JStr("cus_1"), JArr(<<JStr("a"), JStr("b")>>)>>))
      [] text = TextSnake -> ParseOk(JObj(<<KeyCustomer_Id>>, <<JStr("cus_1")>>))
      [] text = TextList ->
            ParseOk(JArr(<<JObj(<<KeyIsDefault>>, <<JBool("true")>>),
                           JObj(<<KeyIsDefault>>, <<JBool("false")>>)>>))
      [] text = TextError ->
            ParseOk(JObj(<<KeyMessage, KeyCode>>,
                         <<JStr("Customer not found"), JStr("customer_not_found")>>))
      [] text = TextErrorCodeOnly ->
            ParseOk(JObj(<<KeyCode>>, <<JStr("customer_not_found")>>))
      [] text = TextErrorMessageOnly ->
            ParseOk(JObj(<<KeyMessage>>, <<JStr("Customer not found")>>))
      [] text = TextErrorEmpty ->
            ParseOk(JObj(<<KeyMessage, KeyCode>>, <<JStr(""), JStr("")>>))
      [] text = TextProjectsList ->
            ParseOk(JArr(<<JObj(<<KeyId>>, <<JStr("p_1")>>)>>))
      [] text = TextProjectsWrapped ->
            ParseOk(JObj(<<KeyProjects>>, <<JArr(<<JObj(<<KeyId>>, <<JStr("p_1")>>)>>)>>))
      [] text = TextProjectsNull -> ParseOk(JObj(<<KeyProjects>>, <<JNull>>))
      [] text = TextProjectsString -> ParseOk(JObj(<<KeyProjects>>, <<JStr("none")>>))
      [] text = TextProjectsObject ->
            ParseOk(JObj(<<KeyProjects>>, <<JObj(<<KeyId>>, <<JStr("p_1")>>)>>))
      [] text = TextString -> ParseOk(JStr("ok"))
      [] OTHER -> ParseError

\* the outcome of reading a response body to its end: the text, or the
\* failure the read rejects with
ReadOk(text) == [ok |-> TRUE, text |-> text, error |-> NonErrorFailure]
ReadFailed(error) == [ok |-> FALSE, text |-> "", error |-> error]

(***************************************************************************)
(* utils/result.ts                                                         *)
(***************************************************************************)
\* mutant of statusToCode: a status without a case of its own takes the code
\* of its class
statusToCodeByClass(status) ==
    CASE status = 400 -> "bad_request"
      [] status = 401 -> "unauthorized"
      [] status = 403 -> "forbidden"
      [] status = 404 -> "not_found"
      [] status = 409 -> "conflict"
      [] status = 422 -> "validation_error"
      [] status = 429 -> "rate_limit_exceeded"
      [] status >= 500 -> "internal_error"
      [] OTHER -> "unknown_error"

\* statusToCode(status)
statusToCode(status) ==
    CASE status = 400 -> "bad_request"
      [] status = 401 -> "unauthorized"
      [] status = 403 -> "forbidden"
      [] status = 404 -> "not_found"
      [] status = 409 -> "conflict"
      [] status = 422 -> "validation_error"
      [] status = 429 -> "rate_limit_exceeded"
      [] status = 500 -> "internal_error"
      [] OTHER -> "unknown_error"

\* the branch of toResult that reads the body: toResult awaits
\* response.json() or response.text() unless the status is 204
IsErrorStatus(statusCode) == statusCode < 200 \/ statusCode >= 300
AwaitsBody(statusCode) == IsErrorStatus(statusCode) \/ statusCode # 204

\* errorData after the guarded `errorData = await response.json()`
ErrorDataOf(read) ==
    IF read.ok /\ JsonParse(read.text).ok THEN JsonParse(read.text).value
    ELSE EmptyObject

\* mutant of ErrorResult: ?? in place of ||, so that an empty message or
\* code of the body is kept
ErrorResultNullish(statusCode, errorData) ==
    Failure(
        SurpayError(
            IF PropOf(errorData, KeyMessage).t \notin {"undefined", "null"}
                THEN PropOf(errorData, KeyMessage).s
                ELSE "Request failed with status " \o ToString(statusCode),
            IF PropOf(errorData, KeyCode).t \notin {"undefined", "null"}
                THEN PropOf(errorData, KeyCode).s
                ELSE statusToCode(statusCode),
            statusCode),
        statusCode)

\* mutant of ErrorResult: the generated message does not name the status
ErrorResultNoStatus(statusCode, errorData) ==
    Failure(
        SurpayError(
            IF Truthy(PropOf(errorData, KeyMessage))
                THEN PropOf(errorData, KeyMessage).s
                ELSE "Request failed",
            IF Truthy(PropOf(errorData, KeyCode))
                THEN PropOf(errorData, KeyCode).s
                ELSE statusToCode(statusCode),
            statusCode),
        statusCode)

\* the Failure returned for a status outside [200, 300)
ErrorResult(statusCode, errorData) ==
    Failure(
        SurpayError(
            IF Truthy(PropOf(errorData, KeyMessage))
                THEN PropOf(errorData, KeyMessage).s
                ELSE "Request failed with status " \o ToString(statusCode),
            IF Truthy(PropOf(errorData, KeyCode))
                THEN PropOf(errorData, KeyCode).s
                ELSE statusToCode(statusCode),
            statusCode),
        statusCode)

\* mutant of InvalidJsonResult: an unparseable body is reported with status 0
InvalidJsonResultZero(statusCode) ==
    Failure(
        SurpayError("Server returned invalid JSON response",
                    "invalid_json_response", 0),
        0)

InvalidJsonResult(statusCode) ==
    Failure(
        SurpayError("Server returned invalid JSON response",
                    "invalid_json_response", statusCode),
        statusCode)

\* const { responseCase = 'snake' } = options
ResponseCaseOf(options) ==
    IF options.responseCase = None THEN "snake" ELSE options.responseCase[1]

\* mutant of toResult: the keys are converted whatever options says
toResultAlwaysSnake(statusCode, read, options) ==
    IF IsErrorStatus(statusCode)
        THEN Resolved(ErrorResult(statusCode, ErrorDataOf(read)))
    ELSE IF statusCode = 204
        THEN Resolved(Success(EmptyObject, statusCode))
    ELSE IF ~read.ok
        THEN Rejected(read.error)
    ELSE IF read.text = ""
        THEN Resolved(Success(EmptyObject, statusCode))
    ELSE IF ~JsonParse(read.text).ok
        THEN Resolved(InvalidJsonResult(statusCode))
    ELSE Resolved(Success(camelToSnake(JsonParse(read.text).value), statusCode))

\* mutant of toResult: the body is read before the status is compared
\* with 204
toResultReadsFirst(statusCode, read, options) ==
    IF IsErrorStatus(statusCode)
        THEN Resolved(ErrorResult(statusCode, ErrorDataOf(read)))
    ELSE IF ~read.ok
        THEN Rejected(read.error)
    ELSE IF read.text = "" \/ statusCode = 204
        THEN Resolved(Success(EmptyObject, statusCode))
    ELSE IF ~JsonParse(read.text).ok
        THEN Resolved(InvalidJsonResult(statusCode))
    ELSE Resolved(Success(
            IF ResponseCaseOf(options) = "snake"
                THEN camelToSnake(JsonParse(read.text).value)
                ELSE JsonParse(read.text).value,
            statusCode))

\* mutant of toResult: JSON.parse(text) is not guarded, its SyntaxError
\* rejects the promise
toResultNoParseGuard(statusCode, read, options) ==
    IF IsErrorStatus(statusCode)
        THEN Resolved(ErrorResult(statusCode, ErrorDataOf(read)))
    ELSE IF statusCode = 204
        THEN Resolved(Success(EmptyObject, statusCode))
    ELSE IF ~read.ok
        THEN Rejected(read.error)
    ELSE IF read.text = ""
        THEN Resolved(Success(EmptyObject, statusCode))
    ELSE IF ~JsonParse(read.text).ok
        THEN Rejected(Thrown("SyntaxError", "SyntaxError", "Unexpected token in JSON"))
    ELSE Resolved(Success(
            IF ResponseCaseOf(options) = "snake"
                THEN camelToSnake(JsonParse(read.text).value)
                ELSE JsonParse(read.text).value,
            statusCode))

\* mutant of toResult: a body of a non-2xx response that cannot be read as
\* JSON is reported like an unparseable 2xx body
toResultStrictErrorBody(statusCode, read, options) ==
    IF IsErrorStatus(statusCode)
        THEN IF read.ok /\ JsonParse(read.text).ok
                THEN Resolved(ErrorResult(statusCode, ErrorDataOf(read)))
                ELSE Resolved(InvalidJsonResult(statusCode))
    ELSE IF statusCode = 204
        THEN Resolved(Success(EmptyObject, statusCode))
    ELSE IF ~read.ok
        THEN Rejected(read.error)
    ELSE IF read.text = ""
        THEN Resolved(Success(EmptyObject, statusCode))
    ELSE IF ~JsonParse(read.text).ok
        THEN Resolved(InvalidJsonResult(statusCode))
    ELSE Resolved(Success(
            IF ResponseCaseOf(options) = "snake"
                THEN camelToSnake(JsonParse(read.text).value)
                ELSE JsonParse(read.text).value,
            statusCode))

\* toResult(response, options), where read is the outcome of reading the
\* response's body (not looked at for status 204)
toResult(statusCode, read, options) ==
    IF IsErrorStatus(statusCode)
        THEN Resolved(ErrorResult(statusCode, ErrorDataOf(read)))
    ELSE IF statusCode = 204
        THEN Resolved(Success(EmptyObject, statusCode))
    ELSE IF ~read.ok
        THEN Rejected(read.error)
    ELSE IF read.text = ""
        THEN Resolved(Success(EmptyObject, statusCode))
    ELSE IF ~JsonParse(read.text).ok
        THEN Resolved(InvalidJsonResult(statusCode))
    ELSE Resolved(Success(
            IF ResponseCaseOf(options) = "snake"
                THEN camelToSnake(JsonParse(read.text).value)
                ELSE JsonParse(read.text).value,
            statusCode))

(***************************************************************************)
(* SurpayClient: construction                                              *)
(***************************************************************************)
DEFAULT_BASE_URL == "https://pay.surgent.dev"
DEFAULT_TIMEOUT_MS == 30000

\* the options a client is constructed with in this model
ClientOptions ==
    [apiKey : {"sp_org_key", "sp_org_other"},
     baseUrl : {None, Some("http://localhost:8787")},
     responseCase : {None, Some("snake"), Some("camel")},
     timeoutMs : {None, Some(5000)}]

\* mutant of SurpayClient: the credential is sent without its scheme
SurpayClientBareKey(o) ==
    [baseUrl |-> IF o.baseUrl = None \/ o.baseUrl = Some("")
                    THEN DEFAULT_BASE_URL ELSE o.baseUrl[1],
     timeoutMs |-> IF o.timeoutMs = None THEN DEFAULT_TIMEOUT_MS ELSE o.timeoutMs[1],
     headers |-> [Authorization |-> o.apiKey,
                  ContentType |-> "application/json"],
     resultOptions |->
        [responseCase |->
            Some(IF o.responseCase = None THEN "snake" ELSE o.responseCase[1])]]

\* constructor(options)
SurpayClient(o) ==
    [baseUrl |-> IF o.baseUrl = None \/ o.baseUrl = Some("")
                    THEN DEFAULT_BASE_URL ELSE o.baseUrl[1],
     timeoutMs |-> IF o.timeoutMs = None THEN DEFAULT_TIMEOUT_MS ELSE o.timeoutMs[1],
     headers |-> [Authorization |-> "Bearer " \o o.apiKey,
                  ContentType |-> "application/json"],
     resultOptions |->
        [responseCase |->
            Some(IF o.responseCase = None THEN "snake" ELSE o.responseCase[1])]]

(***************************************************************************)
(* SurpayClient: one call                                                  *)
(***************************************************************************)
Methods == {"GET", "POST", "PUT", "DELETE"}
Paths == {"/customers"}
BodyCustomer == JObj(<<KeyCustomerId>>, <<JStr("cus_1")>>)
TextBodyCustomer == "{\"customerId\":\"cus_1\"}"
\* the bodies a caller passes to post and put
RequestBodies == {JUndef, JNull, BodyCustomer, JCircular, JThrowing}
\* get(path) and delete(path) pass no body to request
BodiesOf(method) == IF method \in {"GET", "DELETE"} THEN {JUndef} ELSE RequestBodies

\* the status codes the server answers with
Statuses == {200, 201, 204, 299, 300, 304, 400, 401, 403, 404, 409, 422, 429, 500, 503}

StringifyOk(text) == [ok |-> TRUE, text |-> text, error |-> NonErrorFailure]
StringifyThrows(error) == [ok |-> FALSE, text |-> "", error |-> error]
\* JSON.stringify(body): the text, or what it throws
JsonStringify(body) ==
    CASE body = JNull -> StringifyOk(TextNull)
      [] body = BodyCustomer -> StringifyOk(TextBodyCustomer)
      [] body = EmptyObject -> StringifyOk(TextEmptyObject)
      [] body = JCircular -> StringifyThrows(CircularFailure)
      [] OTHER -> StringifyThrows(NonErrorFailure)

\* mutant of FetchInit: no signal is passed to fetch()
FetchInitNoSignal(c, method, path, body) ==
    [url |-> c.baseUrl \o path,
     method |-> method,
     headers |-> c.headers,
     body |-> IF body # JUndef THEN Some(JsonStringify(body).text) ELSE None,
     signal |-> None]

\* mutant of FetchInit: JSON.stringify(body ?? null), a call without a body
\* sends the text null
FetchInitNullBody(c, method, path, body) ==
    [url |-> c.baseUrl \o path,
     method |-> method,
     headers |-> c.headers,
     body |-> Some(JsonStringify(IF body = JUndef THEN JNull ELSE body).text),
     signal |-> Some(c.timeoutMs)]

\* the arguments of fetch(): the address and the init object
FetchInit(c, method, path, body) ==
    [url |-> c.baseUrl \o path,
     method |-> method,
     headers |-> c.headers,
     body |-> IF body # JUndef THEN Some(JsonStringify(body).text) ELSE None,
     signal |-> Some(c.timeoutMs)]

\* mutant of handleFetchError: the failure's own message is dropped
handleFetchErrorGeneric(error, timeoutMs) ==
    IF InstanceOfDOMException(error) /\ error.name = "TimeoutError"
        THEN Failure(
                SurpayError("Request timed out after " \o ToString(timeoutMs) \o "ms",
                            "timeout_error", 0),
                0)
        ELSE Failure(SurpayError("Network request failed", "network_error", 0), 0)

\* mutant of handleFetchError: what is thrown and is no Error is not taken
\* for a failure of the network
handleFetchErrorOnlyErrors(error, timeoutMs) ==
    IF InstanceOfDOMException(error) /\ error.name = "TimeoutError"
        THEN Failure(
                SurpayError("Request timed out after " \o ToString(timeoutMs) \o "ms",
                            "timeout_error", 0),
                0)
        ELSE Failure(
                SurpayError(IF InstanceOfError(error) THEN error.message
                                ELSE "Network request failed",
                            IF InstanceOfError(error) THEN "network_error"
                                ELSE "unknown_error",
                            0),
                0)

\* handleFetchError(error)
handleFetchError(error, timeoutMs) ==
    IF InstanceOfDOMException(error) /\ error.name = "TimeoutError"
        THEN Failure(
                SurpayError("Request timed out after " \o ToString(timeoutMs) \o "ms",
                            "timeout_error", 0),
                0)
        ELSE Failure(
                SurpayError(IF InstanceOfError(error) THEN error.message
                                ELSE "Network request failed",
                            "network_error", 0),
                0)

\* request(): `catch (error) { return this.handleFetchError(error) }`, which
\* is reached by what is thrown while the arguments of fetch are evaluated
\* and by what the awaited fetch() rejects with
RequestCatch(error, timeoutMs) == Resolved(handleFetchError(error, timeoutMs))

\* request(): `return toResult(response, this.resultOptions)`: the promise
\* of toResult is returned without await, so request settles as toResult
\* settles and a rejection of toResult does not pass through the catch
RequestReturn(settlement, timeoutMs) == settlement

VARIABLES
    options,    \* the options the client was constructed with
    client,     \* the client's readonly fields
    issued,     \* the number of calls issued so far
    pc,         \* where the current call is: idle, fetching, body, settled
    req,        \* the current call's method, path and body
    sent,       \* the fetch() invocations of the current call
    timers,     \* per call, its AbortSignal.timeout timer: none, armed, fired
    transport,  \* the connection of the current call
    response,   \* the response received by the current call
    fault,      \* what the current call's fetch arguments, fetch() or body read threw
    outcome,    \* how the promise of the current call has settled
    fn,         \* the function under test of a specification of one function
    arg,        \* its argument
    ret         \* what it returned or threw, once it was applied

vars ==
    <<options, client, issued, pc, req, sent, timers, transport, response, fault, outcome,
      fn, arg, ret>>

Pending == [settled |-> "pending", result |-> None, thrown |-> None]
NoRequest == [method |-> "", path |-> "", body |-> JUndef]

\* a client constructed with options o, before its first call
Constructed(o) ==
    /\ options = o
    /\ client = SurpayClient(options)
    /\ issued = 0
    /\ pc = "idle"
    /\ req = NoRequest
    /\ sent = <<>>
    /\ timers = [c \in 1..MaxCalls |-> "none"]
    /\ transport = "none"
    /\ response = None
    /\ fault = None
    /\ outcome = Pending

\* ret before the function under test was applied
NotApplied == None

Init ==
    /\ \E o \in ClientOptions : Constructed(o)
    /\ fn = "request"
    /\ arg = None
    /\ ret = NotApplied

\* get / post / put / delete -> request(method, path, body), up to the
\* await of fetch()
Request(method, path, body) ==
    /\ pc = "idle"
    /\ issued < MaxCalls
    /\ issued' = issued + 1
    /\ req' = [method |-> method, path |-> path, body |-> body]
    /\ response' = None
    /\ IF body # JUndef /\ ~JsonStringify(body).ok
          THEN /\ outcome' = RequestCatch(JsonStringify(body).error, client.timeoutMs)
               /\ fault' = Some(JsonStringify(body).error)
               /\ pc' = "settled"
               /\ sent' = <<>>
               /\ transport' = "none"
               /\ UNCHANGED timers
          ELSE /\ sent' = <<FetchInit(client, method, path, body)>>
               /\ timers' = [timers EXCEPT ![issued + 1] = "armed"]
               /\ transport' = "inflight"
               /\ pc' = "fetching"
               /\ fault' = None
               /\ outcome' = Pending
    /\ UNCHANGED <<fn, arg, ret, options, client>>

\* the body of a response that toResult does not read
Unread == ReadFailed(BodyFailure)

\* fetch() resolves with a response: toResult runs up to its first await
FetchResolve(status, text) ==
    /\ pc = "fetching"
    /\ transport = "inflight"
    /\ response' = Some([status |-> status, text |-> text])
    /\ transport' = "streaming"
    /\ IF AwaitsBody(status)
          THEN /\ pc' = "body"
               /\ UNCHANGED outcome
          ELSE /\ pc' = "settled"
               /\ outcome' = RequestReturn(toResult(status, Unread, client.resultOptions),
                                           client.timeoutMs)
    /\ UNCHANGED <<fn, arg, ret, options, client, issued, req, sent, timers, fault>>

\* mutant of FetchReject: a rejected fetch() is issued a second time
FetchRejectRetry(error) ==
    /\ pc = "fetching"
    /\ transport = "inflight"
    /\ IF Len(sent) < 2
          THEN /\ sent' = Append(sent, sent[1])
               /\ UNCHANGED <<transport, pc, fault, outcome>>
          ELSE /\ transport' = "failed"
               /\ pc' = "settled"
               /\ fault' = Some(error)
               /\ outcome' = RequestCatch(error, client.timeoutMs)
               /\ UNCHANGED sent
    /\ UNCHANGED <<fn, arg, ret, options, client, issued, req, timers, response>>

\* fetch() rejects: no response was received
FetchReject(error) ==
    /\ pc = "fetching"
    /\ transport = "inflight"
    /\ transport' = "failed"
    /\ pc' = "settled"
    /\ fault' = Some(error)
    /\ outcome' = RequestCatch(error, client.timeoutMs)
    /\ UNCHANGED <<fn, arg, ret, options, client, issued, req, sent, timers, response>>

\* response.json() / response.text() has read the whole body
BodyRead ==
    /\ pc = "body"
    /\ transport = "streaming"
    /\ transport' = "closed"
    /\ pc' = "settled"
    /\ UNCHANGED fault
    /\ outcome' = RequestReturn(toResult(response[1].status, ReadOk(response[1].text),
                                         client.resultOptions),
                                client.timeoutMs)
    /\ UNCHANGED <<fn, arg, ret, options, client, issued, req, sent, timers, response>>

\* the connection breaks while the body is read
BodyFail ==
    /\ pc = "body"
    /\ transport = "streaming"
    /\ transport' = "failed"
    /\ pc' = "settled"
    /\ fault' = Some(BodyFailure)
    /\ outcome' = RequestReturn(toResult(response[1].status, ReadFailed(BodyFailure),
                                         client.resultOptions),
                                client.timeoutMs)
    /\ UNCHANGED <<fn, arg, ret, options, client, issued, req, sent, timers, response>>

\* the timer of AbortSignal.timeout(timeoutMs) of call c fires: the signal
\* aborts with a TimeoutError, which aborts the fetch it was passed to
DeadlineFire(c) ==
    /\ timers[c] = "armed"
    /\ \A d \in 1..(c - 1) : timers[d] # "armed"
    /\ timers' = [timers EXCEPT ![c] = "fired"]
    /\ IF c = issued /\ sent # <<>> /\ sent[Len(sent)].signal # None
          THEN CASE pc = "fetching" ->
                    /\ transport' = "aborted"
                    /\ pc' = "settled"
                    /\ fault' = Some(TimeoutDOMException)
                    /\ outcome' = RequestCatch(TimeoutDOMException, client.timeoutMs)
                 [] pc = "body" ->
                    /\ transport' = "aborted"
                    /\ pc' = "settled"
                    /\ fault' = Some(TimeoutDOMException)
                    /\ outcome' = RequestReturn(
                            toResult(response[1].status, ReadFailed(TimeoutDOMException),
                                     client.resultOptions),
                            client.timeoutMs)
                 [] OTHER ->
                    /\ transport' = IF transport = "streaming" THEN "aborted" ELSE transport
                    /\ UNCHANGED <<pc, fault, outcome>>
          ELSE UNCHANGED <<transport, pc, fault, outcome>>
    /\ UNCHANGED <<fn, arg, ret, options, client, issued, req, sent, response>>

\* the caller has the settled promise: the call is over
Return ==
    /\ pc = "settled"
    /\ pc' = "idle"
    /\ req' = NoRequest
    /\ sent' = <<>>
    /\ transport' = "none"
    /\ response' = None
    /\ fault' = None
    /\ outcome' = Pending
    /\ UNCHANGED <<fn, arg, ret, options, client, issued, timers>>

Next ==
    \/ \E method \in Methods, path \in Paths :
            \E body \in BodiesOf(method) : Request(method, path, body)
    \/ \E status \in Statuses, text \in BodyTexts : FetchResolve(status, text)
    \/ \E error \in NetworkFailures : FetchReject(error)
    \/ BodyRead
    \/ BodyFail
    \/ \E c \in 1..MaxCalls : DeadlineFire(c)
    \/ Return

Spec == Init /\ [][Next]_vars

\* the calls of a client under a running clock: an armed timer of
\* AbortSignal.timeout fires when its time has come
SpecLive == Init /\ [][Next]_vars /\ \A c \in 1..MaxCalls : WF_vars(DeadlineFire(c))

(***************************************************************************)
(* statusToCode on its own                                                 *)
(***************************************************************************)
MaxStatus == 599
\* the status codes statusToCode is applied to
StatusCodes == 0..MaxStatus

InitClassifier ==
    /\ Constructed([apiKey |-> "sp_org_key", baseUrl |-> None,
                    responseCase |-> None, timeoutMs |-> None])
    /\ fn = "statusToCode"
    /\ arg \in StatusCodes
    /\ ret = NotApplied

\* statusToCode(arg) returns
Classify ==
    /\ fn = "statusToCode"
    /\ ret = NotApplied
    /\ ret' = Some(statusToCode(arg))
    /\ UNCHANGED <<fn, arg, options, client, issued, pc, req, sent, timers, transport,
                   response, fault, outcome>>

NextClassifier == Classify

SpecClassifier == InitClassifier /\ [][NextClassifier]_vars

(***************************************************************************)
(* stringToSnakeCase on its own                                            *)
(***************************************************************************)
MaxKeyLen == 3
\* the characters keys are made of: lowercase and uppercase letters, a
\* digit and the underscore
KeyChars == {"a", "b", "A", "B", "1", "_"}
RECURSIVE KeysOfLen(_)
KeysOfLen(n) ==
    IF n = 0 THEN {<<>>}
    ELSE {Append(k, c) : k \in KeysOfLen(n - 1), c \in KeyChars}
KeyProductGroupId ==
    <<"p", "r", "o", "d", "u", "c", "t", "G", "r", "o", "u", "p", "I", "d">>
\* the keys stringToSnakeCase is applied to
KeyInputs ==
    UNION {KeysOfLen(n) : n \in 0..MaxKeyLen}
        \cup {KeyProductGroupId, KeyCustomerId, KeyCustomer_Id, KeyIsDefault, KeyTags}

InitKey ==
    /\ Constructed([apiKey |-> "sp_org_key", baseUrl |-> None,
                    responseCase |-> None, timeoutMs |-> None])
    /\ fn = "stringToSnakeCase"
    /\ arg \in KeyInputs
    /\ ret = NotApplied

\* stringToSnakeCase(arg) returns
ConvertKey ==
    /\ fn = "stringToSnakeCase"
    /\ ret = NotApplied
    /\ ret' = Some(stringToSnakeCase(arg))
    /\ UNCHANGED <<fn, arg, options, client, issued, pc, req, sent, timers, transport,
                   response, fault, outcome>>

NextKey == ConvertKey

SpecKey == InitKey /\ [][NextKey]_vars

(***************************************************************************)
(* camelToSnake on its own                                                 *)
(***************************************************************************)
MaxDepth == 2
MaxApplications == 2
\* null, undefined and the primitives; the string looks like a camelCase key
Leaves == {JNull, JUndef, JStr("aB"), JNum("1"), JBool("true")}
\* the keys of the objects: camelCase, snake_case (which aB converts to),
\* lowercase with a digit, uppercase
ObjectKeys == {<<"a", "B">>, <<"a", "_", "b">>, <<"a", "1">>, <<"A", "B">>}
\* the arrays and objects with a value of vs as element or property value;
\* among the objects are those with two keys that convert to the same key
Containers(vs) ==
    {JArr(<<>>), EmptyObject}
        \cup {JArr(<<v>>) : v \in vs}
        \cup {JArr(<<v, JStr("aB")>>) : v \in vs}
        \cup {JObj(<<k>>, <<v>>) : k \in ObjectKeys, v \in vs}
        \cup {JObj(<<<<"a", "B">>, <<"a", "_", "b">>>>, <<v, JNum("1")>>) : v \in vs}
        \cup {JObj(<<<<"a", "B">>, <<"a", "_", "b">>>>, <<JNum("1"), v>>) : v \in vs}
        \cup {JObj(<<<<"a", "_", "b">>, <<"a", "B">>>>, <<v, JNum("1")>>) : v \in vs}
        \cup {JObj(<<<<"a", "1">>, <<"A", "B">>>>, <<JNum("1"), v>>) : v \in vs}
RECURSIVE ValuesOfDepth(_)
ValuesOfDepth(d) ==
    IF d = 0 THEN Leaves ELSE Leaves \cup Containers(ValuesOfDepth(d - 1))
\* the values camelToSnake is applied to
CaseInputs ==
    ValuesOfDepth(MaxDepth)
        \cup {JsonParse(text).value : text \in {TextCustomer, TextSnake, TextList, TextError}}

InitCase ==
    /\ Constructed([apiKey |-> "sp_org_key", baseUrl |-> None,
                    responseCase |-> None, timeoutMs |-> None])
    /\ fn = "camelToSnake"
    /\ arg \in CaseInputs
    /\ ret = NotApplied

\* camelToSnake returns: applied to arg first, then to what it returned
Transform ==
    /\ fn = "camelToSnake"
    /\ Len(ret) < MaxApplications
    /\ ret' = Append(ret, camelToSnake(IF ret = NotApplied THEN arg ELSE ret[Len(ret)]))
    /\ UNCHANGED <<fn, arg, options, client, issued, pc, req, sent, timers, transport,
                   response, fault, outcome>>

NextCase == Transform

SpecCase == InitCase /\ [][NextCase]_vars

(***************************************************************************)
(* Surpay and SurpayAdmin: construction                                    *)
(***************************************************************************)
\* credentials are sequences of characters, '' is <<>>
PrefixOrg == <<"s", "p", "_", "o", "r", "g", "_">>
PrefixMaster == <<"s", "p", "_", "m", "a", "s", "t", "e", "r", "_">>
Credentials ==
    {PrefixOrg \o <<"k">>, PrefixOrg \o <<"e">>,
     PrefixMaster \o <<"k">>, PrefixMaster \o <<"e">>,
     <<"k">>}

\* str.startsWith(prefix)
startsWith(str, prefix) ==
    Len(str) >= Len(prefix) /\ SubSeq(str, 1, Len(prefix)) = prefix

\* a || b on strings that may be undefined
OrElse(a, b) == IF a # None /\ a[1] # <<>> THEN a ELSE b

\* new Surpay(options) / new SurpayAdmin(options) with the environment it
\* runs in: options?.apiKey (options?.masterKey), options?.baseUrl,
\* options?.responseCase, process.env.SURPAY_API_KEY (SURPAY_MASTER_KEY)
\* and process.env.SURPAY_BASE_URL
ConstructorArgs ==
    [apiKey : {None} \cup {Some(k) : k \in Credentials \cup {<<>>}},
     baseUrl : {None, Some("http://localhost:8787")},
     responseCase : {None, Some("snake"), Some("camel")},
     envKey : {None} \cup {Some(k) : k \in Credentials \cup {<<>>}},
     envBaseUrl : {None, Some("https://staging.surgent.dev")}]

\* the constructor throws before super() is called: no client exists
Throws(message) == [threw |-> TRUE, message |-> message, super |-> None]
\* the constructor calls super(o) and returns the client
Super(o) == [threw |-> FALSE, message |-> "", super |-> Some(o)]

\* mutant of Surpay: the environment is asked first
SurpayEnvFirst(a) ==
    LET apiKey == OrElse(OrElse(a.envKey, a.apiKey), Some(<<>>))[1]
        baseUrl == IF a.baseUrl # None THEN a.baseUrl ELSE a.envBaseUrl
    IN  IF apiKey = <<>>
            THEN Throws("Surpay API key is required. Pass it via options or set SURPAY_API_KEY env var.")
            ELSE Super([apiKey |-> apiKey, baseUrl |-> baseUrl,
                        responseCase |-> a.responseCase])

\* class Surpay of packages/surpay/src/surpay.ts: constructor(options)
Surpay(a) ==
    LET apiKey == OrElse(OrElse(a.apiKey, a.envKey), Some(<<>>))[1]
        baseUrl == IF a.baseUrl # None THEN a.baseUrl ELSE a.envBaseUrl
    IN  IF apiKey = <<>>
            THEN Throws("Surpay API key is required. Pass it via options or set SURPAY_API_KEY env var.")
            ELSE Super([apiKey |-> apiKey, baseUrl |-> baseUrl,
                        responseCase |-> a.responseCase])

\* class Surpay of src/surpay.ts: constructor(options)
SurpayOfSrc(a) ==
    LET apiKey == OrElse(OrElse(a.apiKey, a.envKey), Some(<<>>))[1]
    IN  IF apiKey = <<>>
            THEN Throws("Surpay API key is required. Pass it via options or set SURPAY_API_KEY env var.")
            ELSE Super([apiKey |-> apiKey, baseUrl |-> a.baseUrl, responseCase |-> None])

\* class SurpayAdmin: constructor(options)
SurpayAdmin(a) ==
    LET masterKey == OrElse(OrElse(a.apiKey, a.envKey), Some(<<>>))[1]
    IN  IF masterKey = <<>>
            THEN Throws("Surpay master key is required. Pass it via options or set SURPAY_MASTER_KEY env var.")
        ELSE IF ~startsWith(masterKey, PrefixMaster)
            THEN Throws("Invalid master key format. Admin keys must start with sp_master_")
        ELSE Super([apiKey |-> masterKey, baseUrl |-> a.baseUrl, responseCase |-> None])

Constructors == {"Surpay", "SurpayOfSrc", "SurpayAdmin"}
\* new fn(arg)
New(f, a) ==
    CASE f = "Surpay" -> Surpay(a)
      [] f = "SurpayOfSrc" -> SurpayOfSrc(a)
      [] f = "SurpayAdmin" -> SurpayAdmin(a)

InitConstruct ==
    /\ Constructed([apiKey |-> "sp_org_key", baseUrl |-> None,
                    responseCase |-> None, timeoutMs |-> None])
    /\ fn \in Constructors
    /\ arg \in ConstructorArgs
    /\ ret = NotApplied

\* the constructor returns or throws
Construct ==
    /\ fn \in Constructors
    /\ ret = NotApplied
    /\ ret' = Some(New(fn, arg))
    /\ UNCHANGED <<fn, arg, options, client, issued, pc, req, sent, timers, transport,
                   response, fault, outcome>>

NextConstruct == Construct

SpecConstruct == InitConstruct /\ [][NextConstruct]_vars

(***************************************************************************)
(* Surpay.projects.list                                                    *)
(***************************************************************************)
\* the bodies GET /projects is answered with
ProjectTexts ==
    {"", TextNotJson, TextNull, TextEmptyObject, TextEmptyArray, TextCustomer, TextError,
     TextProjectsList, TextProjectsWrapped, TextProjectsNull, TextProjectsString,
     TextProjectsObject, TextString}

\* how `this.get('/projects')` can settle: on a response that was read, on
\* a response whose body could not be read, without a response
GetSettlements ==
    {toResult(status, ReadOk(text), [responseCase |-> Some(rc)]) :
        status \in Statuses, text \in ProjectTexts, rc \in {"snake", "camel"}}
    \cup {toResult(status, ReadFailed(BodyFailure), [responseCase |-> Some("snake")]) :
            status \in Statuses}
    \cup {RequestCatch(error, DEFAULT_TIMEOUT_MS) :
            error \in NetworkFailures \cup {TimeoutDOMException}}

\* projects.list(), where got is how the awaited this.get has settled
projectsList(got) ==
    IF got.settled = "rejected" THEN got
    ELSE LET result == got.result[1]
         IN  IF result.error # None THEN Resolved(result)
             ELSE IF result.data.t = "array"
                 THEN Resolved(Success(result.data, result.statusCode))
             ELSE IF result.data.t \in {"null", "undefined"}
                 THEN Rejected(Thrown("TypeError", "TypeError",
                        "Cannot read properties of null (reading 'projects')"))
             ELSE Resolved(Success(
                    IF Truthy(PropOf(result.data, KeyProjects))
                        THEN PropOf(result.data, KeyProjects)
                        ELSE JArr(<<>>),
                    result.statusCode))

InitProjects ==
    /\ Constructed([apiKey |-> "sp_org_key", baseUrl |-> None,
                    responseCase |-> None, timeoutMs |-> None])
    /\ fn = "projects.list"
    /\ arg \in GetSettlements
    /\ ret = NotApplied

\* projects.list() settles
ProjectsList ==
    /\ fn = "projects.list"
    /\ ret = NotApplied
    /\ ret' = Some(projectsList(arg))
    /\ UNCHANGED <<fn, arg, options, client, issued, pc, req, sent, timers, transport,
                   response, fault, outcome>>

NextProjects == ProjectsList

SpecProjects == InitProjects /\ [][NextProjects]_vars

(***************************************************************************)
(* surpay-convex: the actions createCheckout, guestCheckout and check      *)
(*                                                                         *)
(* In this specification pc is the position of the handler, req holds its  *)
(* locals, sent is the log of what it has called so far (identify and the  *)
(* methods of the SDK client) and ret is what the handler returned.        *)
(***************************************************************************)
ConvexActions == {"createCheckout", "guestCheckout", "check"}
\* args of the action; guestCheckout always has a customerId
ConvexArgs ==
    [productId : {None, Some(""), Some("prod_1")},
     productSlug : {None, Some(""), Some("pro-plan"), Some("no-such-plan")},
     customerId : {None, Some("cus_guest")}]
ArgsOf(f) == {a \in ConvexArgs : f = "guestCheckout" => a.customerId # None}

KeyProduct == <<"p", "r", "o", "d", "u", "c", "t">>
KeySlug == <<"s", "l", "u", "g">>
ProductsData ==
    JArr(<<JObj(<<KeyProduct>>,
                <<JObj(<<KeyId, KeySlug>>, <<JStr("prod_2"), JStr("pro-plan")>>)>>)>>)
\* how a call of the SDK client settles, as seen by the action: a Success
\* (whose data may be null or {}), a Failure, or a rejected promise
SdkSettlements ==
    {Resolved(Success(data, 200)) : data \in {ProductsData, JArr(<<>>), EmptyObject, JNull}}
        \cup {Resolved(ErrorResult(404, EmptyObject)),
              RequestCatch(TimeoutDOMException, DEFAULT_TIMEOUT_MS),
              Rejected(BodyFailure)}

\* what identify(ctx) gives: null, an identity, or a rejection
Identities == {"null", "cus_user", "rejected"}

\* the string is absent or empty: !x
Falsy(x) == x = None \/ x = Some("")

\* toPlainError(error)
toPlainError(error) ==
    IF "code" \in DOMAIN error
        THEN [message |-> error.message, code |-> Some(error.code)]
        ELSE [message |-> IF InstanceOfError(error) THEN error.message ELSE "[object]",
              code |-> None]

\* what a handler returns: { data, error } (with the statusCode of the SDK
\* Result when that Result is passed on)
Returned(data, error) == [threw |-> FALSE, data |-> data, error |-> error]

AuthRequired ==
    Thrown("Error", "Error",
           "Authentication required. Make sure the user is signed in and your identify() function returns their customerId.")
ProductRequired == [message |-> "Either productId or productSlug is required", code |-> None]
SlugNotFound(slug) ==
    Thrown("Error", "Error", "Product with slug \"" \o slug \o "\" not found")

\* mutant of NeedsAuth: check takes the customer of its args as it is
NeedsAuthCreateOnly(f, a) == f = "createCheckout"

\* the handler awaits requireAuth(ctx) first
NeedsAuth(f, a) == f = "createCheckout" \/ (f = "check" /\ a.customerId = None)

\* mutant of ProductStep: a slug is looked up whether or not there is an id
ProductStepSlugFirst(a) ==
    IF ~Falsy(a.productSlug) THEN "lookup"
    ELSE IF Falsy(a.productId) THEN "error"
    ELSE "call"

\* `let productId = args.productId; if (!productId && args.productSlug)
\* ... if (!productId) return ...`: what the handler does about the product
ProductStep(a) ==
    IF Falsy(a.productId) /\ ~Falsy(a.productSlug) THEN "lookup"
    ELSE IF Falsy(a.productId) THEN "error"
    ELSE "call"

\* the method of the SDK client the action ends with
SdkCallOf(f) == IF f = "check" THEN "check" ELSE "checkout.create"

\* resolveProductId(args, products) for args without productId and with a
\* slug: the id, or what it throws (products.find throws on a non-array)
resolveProductId(a, products) ==
    IF products.t # "array"
        THEN [ok |-> FALSE, id |-> "",
              error |-> Thrown("TypeError", "TypeError", "products.find is not a function")]
    ELSE IF \E i \in 1..Len(products.items) :
                PropOf(PropOf(products.items[i], KeyProduct), KeySlug) = JStr(a.productSlug[1])
        THEN [ok |-> TRUE,
              id |-> PropOf(PropOf(products.items[
                        CHOOSE i \in 1..Len(products.items) :
                            /\ PropOf(PropOf(products.items[i], KeyProduct), KeySlug)
                                    = JStr(a.productSlug[1])
                            /\ \A j \in 1..(i - 1) :
                                    PropOf(PropOf(products.items[j], KeyProduct), KeySlug)
                                        # JStr(a.productSlug[1])],
                        KeyProduct), KeyId).s,
              error |-> NonErrorFailure]
    ELSE [ok |-> FALSE, id |-> "", error |-> SlugNotFound(a.productSlug[1])]

InitConvex ==
    /\ options = [apiKey |-> "sp_org_key", baseUrl |-> None,
                  responseCase |-> Some("camel"), timeoutMs |-> None]
    /\ client = SurpayClient(options)
    /\ issued = 0
    /\ timers = [c \in 1..MaxCalls |-> "none"]
    /\ transport = "none"
    /\ response = None
    /\ fault = None
    /\ outcome = Pending
    /\ fn \in ConvexActions
    /\ arg \in ArgsOf(fn)
    /\ pc = "start"
    /\ req = [identity |-> "", customerId |-> None, productId |-> None]
    /\ sent = <<>>
    /\ ret = NotApplied

\* the handler returns { data: null, error } and is over
ReturnError(error) ==
    /\ ret' = Some(Returned(JNull, Some(error)))
    /\ pc' = "done"
    /\ UNCHANGED sent

\* the handler calls the SDK method it ends with, for product id
IssueCall(identity, customerId, id) ==
    /\ sent' = Append(sent, SdkCallOf(fn))
    /\ req' = [identity |-> identity, customerId |-> customerId, productId |-> Some(id)]
    /\ pc' = "call"
    /\ UNCHANGED ret

\* the handler from `let productId = args.productId` to its next await or
\* return, for the customer it has settled on
Proceed(identity, customerId) ==
    CASE ProductStep(arg) = "lookup" ->
            /\ sent' = Append(sent, "products.listWithPrices")
            /\ req' = [identity |-> identity, customerId |-> customerId, productId |-> None]
            /\ pc' = "lookup"
            /\ UNCHANGED ret
      [] ProductStep(arg) = "error" ->
            /\ ReturnError(ProductRequired)
            /\ req' = [identity |-> identity, customerId |-> customerId, productId |-> None]
      [] OTHER -> IssueCall(identity, customerId, arg.productId[1])

\* the handler starts: it awaits requireAuth(ctx) when it needs the
\* identity, and goes on to the product otherwise
Begin ==
    /\ pc = "start"
    /\ IF NeedsAuth(fn, arg)
          THEN /\ sent' = <<"identify">>
               /\ pc' = "auth"
               /\ UNCHANGED <<req, ret>>
          ELSE Proceed("", arg.customerId)
    /\ UNCHANGED <<fn, arg, options, client, issued, timers, transport, response,
                   fault, outcome>>

\* identify(ctx) settles
IdentifyReturns(id) ==
    /\ pc = "auth"
    /\ CASE id = "null" ->
                /\ ReturnError(toPlainError(AuthRequired))
                /\ req' = [req EXCEPT !.identity = id]
          [] id = "rejected" ->
                /\ ReturnError(toPlainError(Thrown("Error", "Error", "identify failed")))
                /\ req' = [req EXCEPT !.identity = id]
          [] OTHER ->
                Proceed(id, Some(id))
    /\ UNCHANGED <<fn, arg, options, client, issued, timers, transport, response,
                   fault, outcome>>

\* client.products.listWithPrices() settles
LookupSettles(s) ==
    /\ pc = "lookup"
    /\ response' = Some(s)
    /\ IF s.settled = "rejected"
          THEN ReturnError(toPlainError(s.thrown[1])) /\ UNCHANGED req
       ELSE IF s.result[1].error # None
          THEN ReturnError(toPlainError(s.result[1].error[1])) /\ UNCHANGED req
       ELSE IF ~resolveProductId(arg, s.result[1].data).ok
          THEN ReturnError(toPlainError(resolveProductId(arg, s.result[1].data).error))
               /\ UNCHANGED req
       ELSE IssueCall(req.identity, req.customerId,
                      resolveProductId(arg, s.result[1].data).id)
    /\ UNCHANGED <<fn, arg, options, client, issued, timers, transport, fault, outcome>>

\* client.checkout.create / client.check settles inside wrapSdkCall
CallSettles(s) ==
    /\ pc = "call"
    /\ pc' = "done"
    /\ ret' = Some(IF s.settled = "rejected"
                      THEN Returned(JNull, Some(toPlainError(s.thrown[1])))
                   ELSE IF s.result[1].error # None
                      THEN Returned(JNull, Some(toPlainError(s.result[1].error[1])))
                   ELSE Returned(s.result[1].data, None))
    /\ UNCHANGED <<fn, arg, options, client, issued, timers, transport, response,
                   fault, outcome, req, sent>>

NextConvex ==
    \/ Begin
    \/ \E id \in Identities : IdentifyReturns(id)
    \/ \E s \in SdkSettlements : LookupSettles(s)
    \/ \E s \in SdkSettlements : CallSettles(s)

SpecConvex == InitConvex /\ [][NextConvex]_vars

(***************************************************************************)
(* Concurrent calls on one client: every call has its own request, fetch,  *)
(* timer, response and promise; the client's readonly fields are shared.   *)
(* Here pc, req, sent, transport, response, fault and outcome hold one     *)
(* entry per call.                                                         *)
(***************************************************************************)
Calls == 1..MaxCalls

\* the requests, statuses and bodies of the concurrent calls
ConcurrentRequests ==
    {[method |-> "GET", path |-> "/customers", body |-> JUndef],
     [method |-> "POST", path |-> "/customers", body |-> BodyCustomer],
     [method |-> "POST", path |-> "/customers", body |-> JCircular]}
ConcurrentStatuses == {200, 204, 404}
ConcurrentTexts == {TextCustomer, TextError, TextNotJson}

InitConcurrent ==
    /\ options \in {o \in ClientOptions :
                        /\ o.apiKey = "sp_org_key"
                        /\ o.baseUrl = None
                        /\ o.timeoutMs = None}
    /\ client = SurpayClient(options)
    /\ issued = 0
    /\ pc = [c \in Calls |-> "idle"]
    /\ req = [c \in Calls |-> NoRequest]
    /\ sent = [c \in Calls |-> <<>>]
    /\ timers = [c \in Calls |-> "none"]
    /\ transport = [c \in Calls |-> "none"]
    /\ response = [c \in Calls |-> None]
    /\ fault = [c \in Calls |-> None]
    /\ outcome = [c \in Calls |-> Pending]
    /\ fn = "concurrent"
    /\ arg = None
    /\ ret = NotApplied

\* call c enters request(method, path, body) and runs up to the await of
\* fetch(), whatever the earlier calls are doing
ConcurrentRequest(c, r) ==
    /\ c = issued + 1
    /\ c \in Calls
    /\ pc[c] = "idle"
    /\ issued' = c
    /\ req' = [req EXCEPT ![c] = r]
    /\ IF r.body # JUndef /\ ~JsonStringify(r.body).ok
          THEN /\ outcome' = [outcome EXCEPT
                                ![c] = RequestCatch(JsonStringify(r.body).error,
                                                    client.timeoutMs)]
               /\ fault' = [fault EXCEPT ![c] = Some(JsonStringify(r.body).error)]
               /\ pc' = [pc EXCEPT ![c] = "settled"]
               /\ UNCHANGED <<sent, transport, timers>>
          ELSE /\ sent' = [sent EXCEPT
                             ![c] = <<FetchInit(client, r.method, r.path, r.body)>>]
               /\ timers' = [timers EXCEPT ![c] = "armed"]
               /\ transport' = [transport EXCEPT ![c] = "inflight"]
               /\ pc' = [pc EXCEPT ![c] = "fetching"]
               /\ UNCHANGED <<fault, outcome>>
    /\ UNCHANGED <<fn, arg, ret, options, client, response>>

\* the fetch() of call c resolves with a response
ConcurrentFetchResolve(c, status, text) ==
    /\ pc[c] = "fetching"
    /\ transport[c] = "inflight"
    /\ response' = [response EXCEPT ![c] = Some([status |-> status, text |-> text])]
    /\ transport' = [transport EXCEPT ![c] = "streaming"]
    /\ IF AwaitsBody(status)
          THEN /\ pc' = [pc EXCEPT ![c] = "body"]
               /\ UNCHANGED outcome
          ELSE /\ pc' = [pc EXCEPT ![c] = "settled"]
               /\ outcome' = [outcome EXCEPT
                                ![c] = RequestReturn(
                                          toResult(status, Unread, client.resultOptions),
                                          client.timeoutMs)]
    /\ UNCHANGED <<fn, arg, ret, options, client, issued, req, sent, timers, fault>>

\* the fetch() of call c rejects
ConcurrentFetchReject(c, error) ==
    /\ pc[c] = "fetching"
    /\ transport[c] = "inflight"
    /\ transport' = [transport EXCEPT ![c] = "failed"]
    /\ pc' = [pc EXCEPT ![c] = "settled"]
    /\ fault' = [fault EXCEPT ![c] = Some(error)]
    /\ outcome' = [outcome EXCEPT ![c] = RequestCatch(error, client.timeoutMs)]
    /\ UNCHANGED <<fn, arg, ret, options, client, issued, req, sent, timers, response>>

\* mutant of ConcurrentBodyRead: the response is kept in a field of the
\* client, so a call reads the body of the response received last
ConcurrentBodyReadShared(c) ==
    /\ pc[c] = "body"
    /\ transport[c] = "streaming"
    /\ transport' = [transport EXCEPT ![c] = "closed"]
    /\ pc' = [pc EXCEPT ![c] = "settled"]
    /\ LET last == CHOOSE d \in Calls :
                        /\ response[d] # None
                        /\ \A e \in Calls : response[e] # None => e <= d
       IN  outcome' = [outcome EXCEPT
                         ![c] = RequestReturn(
                                   toResult(response[last][1].status,
                                            ReadOk(response[last][1].text),
                                            client.resultOptions),
                                   client.timeoutMs)]
    /\ UNCHANGED <<fn, arg, ret, options, client, issued, req, sent, timers, response,
                   fault>>

\* call c has read the whole body of its response
ConcurrentBodyRead(c) ==
    /\ pc[c] = "body"
    /\ transport[c] = "streaming"
    /\ transport' = [transport EXCEPT ![c] = "closed"]
    /\ pc' = [pc EXCEPT ![c] = "settled"]
    /\ outcome' = [outcome EXCEPT
                     ![c] = RequestReturn(
                               toResult(response[c][1].status,
                                        ReadOk(response[c][1].text),
                                        client.resultOptions),
                               client.timeoutMs)]
    /\ UNCHANGED <<fn, arg, ret, options, client, issued, req, sent, timers, response,
                   fault>>

\* the connection of call c breaks while its body is read
ConcurrentBodyFail(c) ==
    /\ pc[c] = "body"
    /\ transport[c] = "streaming"
    /\ transport' = [transport EXCEPT ![c] = "failed"]
    /\ pc' = [pc EXCEPT ![c] = "settled"]
    /\ fault' = [fault EXCEPT ![c] = Some(BodyFailure)]
    /\ outcome' = [outcome EXCEPT
                     ![c] = RequestReturn(
                               toResult(response[c][1].status, ReadFailed(BodyFailure),
                                        client.resultOptions),
                               client.timeoutMs)]
    /\ UNCHANGED <<fn, arg, ret, options, client, issued, req, sent, timers, response>>

\* the timer of call c fires: its signal aborts the fetch of call c only
ConcurrentDeadlineFire(c) ==
    /\ timers[c] = "armed"
    /\ \A d \in 1..(c - 1) : timers[d] # "armed"
    /\ timers' = [timers EXCEPT ![c] = "fired"]
    /\ CASE pc[c] = "fetching" ->
            /\ transport' = [transport EXCEPT ![c] = "aborted"]
            /\ pc' = [pc EXCEPT ![c] = "settled"]
            /\ fault' = [fault EXCEPT ![c] = Some(TimeoutDOMException)]
            /\ outcome' = [outcome EXCEPT
                             ![c] = RequestCatch(TimeoutDOMException, client.timeoutMs)]
         [] pc[c] = "body" ->
            /\ transport' = [transport EXCEPT ![c] = "aborted"]
            /\ pc' = [pc EXCEPT ![c] = "settled"]
            /\ fault' = [fault EXCEPT ![c] = Some(TimeoutDOMException)]
            /\ outcome' = [outcome EXCEPT
                             ![c] = RequestReturn(
                                       toResult(response[c][1].status,
                                                ReadFailed(TimeoutDOMException),
                                                client.resultOptions),
                                       client.timeoutMs)]
         [] OTHER ->
            /\ transport' = [transport EXCEPT
                               ![c] = IF @ = "streaming" THEN "aborted" ELSE @]
            /\ UNCHANGED <<pc, fault, outcome>>
    /\ UNCHANGED <<fn, arg, ret, options, client, issued, req, sent, response>>

NextConcurrent ==
    \/ \E c \in Calls, r \in ConcurrentRequests : ConcurrentRequest(c, r)
    \/ \E c \in Calls, status \in ConcurrentStatuses, text \in ConcurrentTexts :
            ConcurrentFetchResolve(c, status, text)
    \/ \E c \in Calls, error \in NetworkFailures : ConcurrentFetchReject(c, error)
    \/ \E c \in Calls : ConcurrentBodyRead(c)
    \/ \E c \in Calls : ConcurrentBodyFail(c)
    \/ \E c \in Calls : ConcurrentDeadlineFire(c)

SpecConcurrent == InitConcurrent /\ [][NextConcurrent]_vars

(***************************************************************************)
(* Properties                                                              *)
(***************************************************************************)
\* the current call has settled with a Result
HasResult == pc = "settled" /\ outcome.settled = "resolved"
\* the current call has received a response with a status in [200, 300)
\* other than 204 and has read its body to the end
ReadSuccessBody ==
    /\ pc = "settled"
    /\ response # None
    /\ ~IsErrorStatus(response[1].status)
    /\ response[1].status # 204
    /\ transport = "closed"
\* the deadline the client was configured with
ConfiguredDeadline ==
    IF options.timeoutMs = None THEN DEFAULT_TIMEOUT_MS ELSE options.timeoutMs[1]

\* C1: the promise of a call never rejects: whatever the transport does,
\* the call settles with a Result.
C1_NeverRejects == outcome.settled # "rejected"

\* C2: exactly one of data and error of a Result is non-null.
C2_ExactlyOneNonNull ==
    HasResult =>
        (outcome.result[1].data = JNull) # (outcome.result[1].error = None)

\* C3: when the deadline timer of the call in flight fires before fetch()
\* has completed, the transport is aborted and the call settles with the
\* Failure timeout_error, statusCode 0, whose message names the configured
\* deadline; from then on nothing of that call changes until it is returned.
C3_DeadlineAborts ==
    [][/\ (pc = "fetching" /\ timers[issued] = "armed" /\ timers'[issued] = "fired")
            => /\ transport' = "aborted"
               /\ pc' = "settled"
               /\ outcome' = Resolved(Failure(
                      SurpayError("Request timed out after "
                                      \o ToString(ConfiguredDeadline) \o "ms",
                                  "timeout_error", 0),
                      0))
       /\ (pc = "settled" /\ response = None /\ fault = Some(TimeoutDOMException))
            => \/ UNCHANGED <<issued, sent, transport, response, outcome>>
               \/ (pc' = "idle" /\ issued' = issued)
      ]_vars

C3_Witness ==
    /\ HasResult
    /\ response = None
    /\ transport = "aborted"
    /\ timers[issued] = "fired"
    /\ outcome.result[1].error[1].code = "timeout_error"

\* C4: a failure of the transport before any response is received settles
\* the call with the Failure network_error, statusCode 0, whose message is
\* the message of that failure.
C4_NetworkFailure ==
    (pc = "settled" /\ response = None /\ fault # None /\ fault[1] \in NetworkFailures)
        => outcome = Resolved(Failure(
                        SurpayError(fault[1].message, "network_error", 0), 0))

C4_Witness ==
    /\ HasResult
    /\ transport = "failed"
    /\ response = None
    /\ fault = Some(Thrown("TypeError", "TypeError", "fetch failed"))
    /\ outcome.result[1].error[1].message = "fetch failed"

\* C5: a call invokes the transport at most once, and once it has settled
\* it issues nothing more: the only step left is its return to the caller.
C5_OneAttempt ==
    [][/\ Len(sent') <= 1
       /\ pc = "settled"
            => \/ UNCHANGED <<pc, issued, sent, outcome>>
               \/ (pc' = "idle" /\ issued' = issued)
      ]_vars

C5_Witness ==
    /\ HasResult
    /\ outcome.result[1].error # None
    /\ Len(sent) = 1

\* C6: a response with a status in [200, 300) other than 204 and a body
\* that is non-empty valid JSON gives the Success whose data is the parsed
\* body, with its keys converted when the client normalises to snake_case
\* and as parsed otherwise, and whose statusCode is the response's.
C6_SuccessData ==
    (ReadSuccessBody /\ response[1].text # "" /\ JsonParse(response[1].text).ok)
        => /\ outcome = Resolved(Success(
                  IF client.resultOptions.responseCase = Some("snake")
                      THEN camelToSnake(JsonParse(response[1].text).value)
                      ELSE JsonParse(response[1].text).value,
                  response[1].status))
           /\ (response[1].text = TextCustomer
                    /\ client.resultOptions.responseCase = Some("snake"))
                => outcome.result[1].data =
                      JObj(<<KeyCustomer_Id, KeyTags>>,
                           <<JStr("cus_1"), JArr(<<JStr("a"), JStr("b")>>)>>)
           /\ (response[1].text = TextCustomer
                    /\ client.resultOptions.responseCase = Some("camel"))
                => outcome.result[1].data =
                      JObj(<<KeyCustomerId, KeyTags>>,
                           <<JStr("cus_1"), JArr(<<JStr("a"), JStr("b")>>)>>)

C6_Witness ==
    /\ ReadSuccessBody
    /\ HasResult
    /\ response[1].status = 201
    /\ response[1].text = TextList
    /\ client.resultOptions.responseCase = Some("snake")
    /\ outcome.result[1].error = None
    /\ outcome.result[1].data =
          JArr(<<JObj(<<KeyIs_Default>>, <<JBool("true")>>),
                 JObj(<<KeyIs_Default>>, <<JBool("false")>>)>>)

\* C7: a response with status 204 gives the Success whose data is the
\* empty object, whatever its body, and the body is never read.
C7_NoContent ==
    (response # None /\ response[1].status = 204)
        => /\ pc = "settled"
           /\ outcome = Resolved(Success(EmptyObject, 204))
           /\ transport \in {"streaming", "aborted"}

C7_Witness ==
    /\ HasResult
    /\ response = Some([status |-> 204, text |-> TextNotJson])
    /\ outcome.result[1].data = EmptyObject

\* C8: a response with a status in [200, 300) other than 204 whose
\* non-empty body is not valid JSON gives the Failure invalid_json_response
\* with the status of the response.
C8_InvalidJson ==
    (ReadSuccessBody /\ response[1].text # "" /\ ~JsonParse(response[1].text).ok)
        => /\ outcome = Resolved(Failure(
                  SurpayError("Server returned invalid JSON response",
                              "invalid_json_response", response[1].status),
                  response[1].status))
           /\ outcome.result[1].statusCode # 0

C8_Witness ==
    /\ HasResult
    /\ transport = "closed"
    /\ response = Some([status |-> 200, text |-> TextNotJson])
    /\ outcome.result[1].error[1].code = "invalid_json_response"
    /\ outcome.result[1].statusCode = 200

\* the current call has received a response with a status outside
\* [200, 300) and has settled
SettledError ==
    pc = "settled" /\ response # None /\ IsErrorStatus(response[1].status)
\* the body of that response was read, is JSON and is an object with key k
Supplies(k) ==
    /\ transport = "closed"
    /\ JsonParse(response[1].text).ok
    /\ JsonParse(response[1].text).value.t = "object"
    /\ LastIndexOf(JsonParse(response[1].text).value.keys, k) > 0
\* the value the body gives for key k
Supplied(k) ==
    LET body == JsonParse(response[1].text).value
    IN  body.items[LastIndexOf(body.keys, k)]

\* C9 as stated: the code of the Failure is the body's code field
\* whenever the body has one.
C9_BodyCodeWhenPresent ==
    SettledError
        => /\ HasResult
           /\ outcome.result[1].statusCode = response[1].status
           /\ outcome.result[1].error # None
           /\ outcome.result[1].error[1].code =
                IF Supplies(KeyCode) THEN Supplied(KeyCode).s
                ELSE statusToCode(response[1].status)

\* C9, amended: for a status outside [200, 300) the code of the Failure is
\* the body's code field when the body has a truthy one (not empty, null,
\* false or 0), and the code the status maps to otherwise (no code, a falsy
\* code, a body that is not JSON or could not be read); statusCode is the
\* status of the response.
C9_BodyCodeWhenNonEmpty ==
    SettledError
        => /\ HasResult
           /\ outcome.result[1].statusCode = response[1].status
           /\ outcome.result[1].error # None
           /\ outcome.result[1].error[1].code =
                IF Supplies(KeyCode) /\ Truthy(Supplied(KeyCode))
                    THEN Supplied(KeyCode).s
                    ELSE statusToCode(response[1].status)
           /\ (response[1].status = 429 /\ ~Supplies(KeyCode))
                => outcome.result[1].error[1].code = "rate_limit_exceeded"

C9_Witness ==
    /\ SettledError
    /\ HasResult
    /\ response = Some([status |-> 422, text |-> TextErrorEmpty])
    /\ transport = "closed"
    /\ outcome.result[1].error[1].code = "validation_error"

\* C10 as stated: the message of the Failure is the body's message field
\* whenever the body has one.
C10_BodyMessageWhenPresent ==
    SettledError
        => /\ HasResult
           /\ outcome.result[1].error # None
           /\ outcome.result[1].error[1].message =
                IF Supplies(KeyMessage) THEN Supplied(KeyMessage).s
                ELSE "Request failed with status " \o ToString(response[1].status)

\* C10, amended: for a status outside [200, 300) the message of the Failure
\* is the body's message field when that is a non-empty string, and
\* "Request failed with status <statusCode>" when the body has no message
\* or a falsy one (empty, null), is not JSON or could not be read; a 404
\* with body {} gives not_found, "Request failed with status 404", 404.
C10_BodyMessageWhenNonEmpty ==
    SettledError
        => /\ HasResult
           /\ outcome.result[1].error # None
           /\ outcome.result[1].error[1].message =
                IF Supplies(KeyMessage) /\ Truthy(Supplied(KeyMessage))
                    THEN Supplied(KeyMessage).s
                    ELSE "Request failed with status " \o ToString(response[1].status)
           /\ (response[1].status = 404 /\ response[1].text = TextEmptyObject
                    /\ transport = "closed")
                => outcome = Resolved(Failure(
                      SurpayError("Request failed with status 404", "not_found", 404),
                      404))

C10_Witness ==
    /\ SettledError
    /\ HasResult
    /\ response = Some([status |-> 404, text |-> TextEmptyObject])
    /\ transport = "closed"
    /\ outcome.result[1].error[1].message = "Request failed with status 404"

\* C11: a response with a status outside [200, 300) whose body was read and
\* is not JSON settles the call with the Failure whose code is derived from
\* the status, whose message is "Request failed with status <status>" and
\* whose statusCode is the status of the response; the promise does not
\* reject, and the code invalid_json_response is given to responses with a
\* status in [200, 300) only.
C11_ErrorBodyNotJson ==
    /\ (SettledError /\ transport = "closed" /\ ~JsonParse(response[1].text).ok)
            => /\ outcome = Resolved(Failure(
                      SurpayError("Request failed with status "
                                      \o ToString(response[1].status),
                                  statusToCode(response[1].status),
                                  response[1].status),
                      response[1].status))
               /\ outcome.result[1].error[1].code # "invalid_json_response"
    /\ (HasResult /\ outcome.result[1].error # None
            /\ outcome.result[1].error[1].code = "invalid_json_response")
            => /\ response # None
               /\ response[1].status >= 200
               /\ response[1].status < 300

C11_Witness ==
    /\ HasResult
    /\ transport = "closed"
    /\ response = Some([status |-> 500, text |-> TextNotJson])
    /\ outcome.result[1].error[1].code = "internal_error"
    /\ outcome.result[1].error[1].message = "Request failed with status 500"
    /\ outcome.result[1].statusCode = 500

\* C18: every fetch() of a call goes to the client's base address followed
\* by the path of the call, with the verb of the call, and carries the
\* headers Authorization: Bearer <the credential the client was constructed
\* with> and Content-Type: application/json.
C18_AddressAndHeaders ==
    \A i \in 1..Len(sent) :
        /\ sent[i].url =
                (IF options.baseUrl \in {None, Some("")}
                    THEN "https://pay.surgent.dev" ELSE options.baseUrl[1])
                \o req.path
        /\ sent[i].method = req.method
        /\ sent[i].headers.Authorization = "Bearer " \o options.apiKey
        /\ sent[i].headers.ContentType = "application/json"

C18_Witness ==
    /\ pc = "fetching"
    /\ options.apiKey = "sp_org_other"
    /\ options.baseUrl = Some("http://localhost:8787")
    /\ req.method = "PUT"
    /\ sent[1].url = "http://localhost:8787/customers"
    /\ sent[1].headers.Authorization = "Bearer sp_org_other"

\* C19: a GET or DELETE passes no body to fetch(); a POST or PUT passes the
\* JSON text of the caller's body when the caller gave one (null included),
\* and no body at all, not the text null, when the caller gave none.
C19_RequestBody ==
    \A i \in 1..Len(sent) :
        /\ req.method \in {"GET", "DELETE"} => sent[i].body = None
        /\ req.body = JUndef => sent[i].body = None
        /\ req.body = BodyCustomer => sent[i].body = Some("{\"customerId\":\"cus_1\"}")
        /\ req.body = JNull => sent[i].body = Some("null")
        /\ sent[i].body # None => req.method \in {"POST", "PUT"} /\ req.body # JUndef

C19_Witness ==
    /\ pc = "fetching"
    /\ req.method = "POST"
    /\ req.body = JUndef
    /\ sent[1].body = None

\* C20: once a call has returned to its caller, the deadline timer of that
\* call is not pending any more (so it cannot fire later).
C20_TimerReleased ==
    \A c \in 1..MaxCalls :
        (c < issued \/ (c = issued /\ pc = "idle")) => timers[c] # "armed"

\* C12: statusToCode returns a code for every status, and exactly this one:
\* 400 bad_request, 401 unauthorized, 403 forbidden, 404 not_found,
\* 409 conflict, 422 validation_error, 429 rate_limit_exceeded,
\* 500 internal_error, and unknown_error for every other status (0, 1xx,
\* 2xx, 3xx and the other 4xx and 5xx).
C12_ErrorClassifier ==
    fn = "statusToCode" =>
        /\ ret = NotApplied => ENABLED Classify
        /\ ret # NotApplied =>
            /\ arg = 400 <=> ret = Some("bad_request")
            /\ arg = 401 <=> ret = Some("unauthorized")
            /\ arg = 403 <=> ret = Some("forbidden")
            /\ arg = 404 <=> ret = Some("not_found")
            /\ arg = 409 <=> ret = Some("conflict")
            /\ arg = 422 <=> ret = Some("validation_error")
            /\ arg = 429 <=> ret = Some("rate_limit_exceeded")
            /\ arg = 500 <=> ret = Some("internal_error")
            /\ arg \notin {400, 401, 403, 404, 409, 422, 429, 500}
                    <=> ret = Some("unknown_error")

C12_Witness ==
    /\ fn = "statusToCode"
    /\ arg = 503
    /\ ret = Some("unknown_error")

\* the positions of key str that hold an uppercase letter immediately after
\* a lowercase letter
Boundaries(str) ==
    {i \in 2..Len(str) : str[i] \in UpperLetters /\ str[i - 1] \in LowerLetters}

\* C14: the converted key is the key with an underscore put before every
\* uppercase letter that immediately follows a lowercase letter, and before
\* no other character (not before an uppercase letter that follows an
\* uppercase letter, a digit, an underscore or the start of the key), all
\* of it in lowercase; productGroupId becomes product_group_id.
C14_KeyConversion ==
    (fn = "stringToSnakeCase" /\ ret # NotApplied) =>
        LET B == Boundaries(arg)
            at(i) == i + Cardinality({b \in B : b <= i})
        IN  /\ Len(ret[1]) = Len(arg) + Cardinality(B)
            /\ \A i \in 1..Len(arg) : ret[1][at(i)] = ToLowerChar(arg[i])
            /\ \A b \in B : ret[1][at(b) - 1] = "_"
            /\ arg = KeyProductGroupId =>
                    ret[1] = <<"p", "r", "o", "d", "u", "c", "t", "_",
                               "g", "r", "o", "u", "p", "_", "i", "d">>

C14_Witness ==
    /\ fn = "stringToSnakeCase"
    /\ arg = <<"a", "B", "B">>
    /\ ret = Some(<<"a", "_", "b", "b">>)

\* key k is in the target convention: lowercase letters, digits and
\* underscores only
InTargetConvention(k) ==
    \A i \in 1..Len(k) :
        k[i] \in LowerLetters \cup {"0", "1", "2", "3", "4", "5", "6", "7", "8", "9", "_"}
\* every key of v, at every depth, is in the target convention
RECURSIVE KeysInTargetConvention(_)
KeysInTargetConvention(v) ==
    /\ \A i \in 1..Len(v.keys) : InTargetConvention(v.keys[i])
    /\ \A i \in 1..Len(v.items) : KeysInTargetConvention(v.items[i])

NonEmpty(x) == x # None /\ x[1] # <<>>

\* C16: a constructor takes the credential of its options when that one is
\* non-empty and the one of the environment otherwise; when neither is
\* non-empty it throws and no client is created; when the credential of the
\* options is non-empty, the environment's has no part in the outcome.
C16_CredentialResolution ==
    (fn \in Constructors /\ ret # NotApplied) =>
        LET r == ret[1]
        IN  /\ (~NonEmpty(arg.apiKey) /\ ~NonEmpty(arg.envKey)) =>
                    /\ r.threw
                    /\ r.message \in
                        {"Surpay API key is required. Pass it via options or set SURPAY_API_KEY env var.",
                         "Surpay master key is required. Pass it via options or set SURPAY_MASTER_KEY env var."}
            /\ r.threw => r.super = None
            /\ ~r.threw =>
                    /\ r.super # None
                    /\ r.super[1].apiKey =
                            IF NonEmpty(arg.apiKey) THEN arg.apiKey[1] ELSE arg.envKey[1]
                    /\ r.super[1].apiKey # <<>>
            /\ NonEmpty(arg.apiKey) =>
                    \A e \in {None} \cup {Some(k) : k \in Credentials \cup {<<>>}} :
                        New(fn, [arg EXCEPT !.envKey = e]) = r

C16_Witness ==
    /\ fn = "Surpay"
    /\ arg.apiKey = Some(<<>>)
    /\ arg.envKey = Some(PrefixOrg \o <<"e">>)
    /\ ret # NotApplied
    /\ ~ret[1].threw
    /\ ret[1].super[1].apiKey = PrefixOrg \o <<"e">>

\* C17: the constructor of the tenant client throws for a credential that
\* starts with sp_master_, the constructor of the admin client throws for
\* a credential that does not start with sp_master_, and either
\* constructor returns a client, without any request, for a credential
\* with the prefix of its role.
C17_PrefixChecked ==
    (fn \in Constructors /\ ret # NotApplied
        /\ (NonEmpty(arg.apiKey) \/ NonEmpty(arg.envKey))) =>
        LET credential == OrElse(arg.apiKey, arg.envKey)[1]
            tenant == fn \in {"Surpay", "SurpayOfSrc"}
        IN  /\ (tenant /\ startsWith(credential, PrefixMaster)) => ret[1].threw
            /\ (~tenant /\ ~startsWith(credential, PrefixMaster)) => ret[1].threw
            /\ (tenant /\ startsWith(credential, PrefixOrg)) => ~ret[1].threw
            /\ (~tenant /\ startsWith(credential, PrefixMaster)) => ~ret[1].threw
            /\ sent = <<>> /\ transport = "none"

\* C22: a Result has statusCode 0 exactly when the call received no
\* response, and its code is then network_error or timeout_error; a Result
\* of a call that received a response has the status of that response,
\* which is not 0.
C22_ZeroIffNoResponse ==
    HasResult =>
        /\ outcome.result[1].statusCode = 0 <=> response = None
        /\ response = None =>
                /\ outcome.result[1].error # None
                /\ outcome.result[1].error[1].code \in {"network_error", "timeout_error"}
        /\ response # None =>
                /\ outcome.result[1].statusCode = response[1].status
                /\ response[1].status # 0

C22_Witness ==
    /\ HasResult
    /\ response = Some([status |-> 200, text |-> TextNotJson])
    /\ transport = "closed"
    /\ outcome.result[1].statusCode = 200
    /\ outcome.result[1].error # None

\* C28: a Failure has the same status in statusCode and in error.statusCode.
C28_SameStatus ==
    (HasResult /\ outcome.result[1].error # None) =>
        outcome.result[1].statusCode = outcome.result[1].error[1].statusCode

C28_Witness ==
    /\ HasResult
    /\ response = Some([status |-> 404, text |-> TextError])
    /\ outcome.result[1].statusCode = 404
    /\ outcome.result[1].error[1].statusCode = 404

\* C29: when JSON.stringify throws on the body of the caller, fetch() is
\* not called and the call settles with the Failure network_error,
\* statusCode 0; whatever is thrown or rejected before a response, other
\* than the TimeoutError of the deadline, gives the code network_error.
C29_StringifyFailure ==
    /\ (pc = "settled" /\ req.body # JUndef /\ ~JsonStringify(req.body).ok) =>
            /\ sent = <<>>
            /\ transport = "none"
            /\ HasResult
            /\ outcome.result[1].data = JNull
            /\ outcome.result[1].error # None
            /\ outcome.result[1].error[1].code = "network_error"
            /\ outcome.result[1].statusCode = 0
    /\ (pc = "settled" /\ response = None /\ fault # None
            /\ fault[1] # TimeoutDOMException) =>
            /\ HasResult
            /\ outcome.result[1].error # None
            /\ outcome.result[1].error[1].code = "network_error"

C29_Witness ==
    /\ HasResult
    /\ req.method = "POST"
    /\ req.body = JThrowing
    /\ sent = <<>>
    /\ outcome.result[1].error[1].code = "network_error"
    /\ outcome.result[1].error[1].message = "Network request failed"

\* C23: a client constructed without a responseCase returns the body of a
\* successful response with the keys it was received with; the keys are
\* converted to snake_case only by a client constructed with responseCase
\* 'snake'.
C23_DefaultKeepsKeys ==
    (ReadSuccessBody /\ HasResult /\ JsonParse(response[1].text).ok) =>
        outcome.result[1].data =
            IF options.responseCase = Some("snake")
                THEN camelToSnake(JsonParse(response[1].text).value)
                ELSE JsonParse(response[1].text).value

C27_ProjectsListArray ==
    (fn = "projects.list" /\ ret # NotApplied /\ arg.settled = "resolved") =>
        LET got == arg.result[1]
            wrapped == PropOf(got.data, KeyProjects)
        IN  /\ ret[1].settled = "resolved"
            /\ got.error # None => ret[1] = arg
            /\ got.error = None =>
                    ret[1].result[1] =
                        Success(IF got.data.t = "array" THEN got.data
                                ELSE IF wrapped.t = "array" THEN wrapped
                                ELSE JArr(<<>>),
                                got.statusCode)

\* what the handler has called so far
Called(name) == \E i \in 1..Len(sent) : sent[i] = name

\* C25: in createCheckout, guestCheckout and check, with a (non-empty)
\* productId the product list is never asked for; with a (non-empty)
\* productSlug only, the product list is asked for once the handler has its
\* customer, before the checkout / check call, and that call is made only
\* when the list came back as a Success holding a product with that slug,
\* with the id of that product; with neither, the handler returns an error
\* and calls no method of the SDK.
C25_ProductResolution ==
    fn \in ConvexActions =>
        /\ ~Falsy(arg.productId) => ~Called("products.listWithPrices")
        /\ (Falsy(arg.productId) /\ ~Falsy(arg.productSlug)) =>
            /\ (pc \in {"lookup", "call"}
                    \/ (pc = "done" /\ req.identity \notin {"null", "rejected"}))
                    => Called("products.listWithPrices")
            /\ \A i \in 1..Len(sent) :
                    sent[i] = SdkCallOf(fn) =>
                        /\ \E j \in 1..(i - 1) : sent[j] = "products.listWithPrices"
                        /\ response # None
                        /\ response[1].settled = "resolved"
                        /\ response[1].result[1].error = None
                        /\ response[1].result[1].data.t = "array"
                        /\ \E m \in 1..Len(response[1].result[1].data.items) :
                                response[1].result[1].data.items[m] =
                                    JObj(<<KeyProduct>>,
                                         <<JObj(<<KeyId, KeySlug>>,
                                                <<JStr(req.productId[1]),
                                                  JStr(arg.productSlug[1])>>)>>)
        /\ (Falsy(arg.productId) /\ Falsy(arg.productSlug)) =>
            /\ ~Called("products.listWithPrices")
            /\ ~Called(SdkCallOf(fn))
            /\ pc \in {"start", "auth", "done"}
            /\ pc = "done" => ret # NotApplied /\ ~ret[1].threw /\ ret[1].error # None

C25_Witness ==
    /\ fn = "check"
    /\ arg.productId = None
    /\ arg.productSlug = Some("pro-plan")
    /\ sent = <<"identify", "products.listWithPrices", "check">>
    /\ req.productId = Some("prod_2")
    /\ pc = "done"

\* C26: createCheckout, and check without a customerId, call identify()
\* before anything else; when identify() gives null the handler returns
\* { data: null, error: { message } } (it does not throw) and has called no
\* method of the SDK; guestCheckout never calls identify().
C26_AuthFirst ==
    fn \in ConvexActions =>
        /\ fn = "guestCheckout" => ~Called("identify")
        /\ (fn = "createCheckout" \/ (fn = "check" /\ arg.customerId = None)) =>
            /\ pc # "start" => (sent # <<>> /\ sent[1] = "identify")
            /\ req.identity = "null" =>
                /\ pc = "done"
                /\ sent = <<"identify">>
                /\ ret = Some([threw |-> FALSE, data |-> JNull,
                               error |-> Some([message |-> AuthRequired.message,
                                               code |-> None])])

C26_Witness ==
    /\ fn = "check"
    /\ arg.customerId = None
    /\ arg.productId = Some("prod_1")
    /\ req.identity = "null"
    /\ pc = "done"
    /\ sent = <<"identify">>

\* a call that awaits fetch() settles, one way or the other
EventuallySettles ==
    \A c \in 1..MaxCalls :
        (issued = c /\ pc = "fetching") ~> (issued = c /\ pc = "settled")

\* C21: every call that awaits fetch() eventually returns its Result: when
\* nothing else ends it, the deadline does.
C21_EventuallyResult ==
    \A c \in 1..MaxCalls :
        (issued = c /\ pc = "fetching") ~> (issued = c /\ HasResult)

\* what request() settles with for a request and a transport outcome when
\* the call is the only one of its client: the transport outcome is the
\* response received (if any), how its connection ended, and what was thrown
SequentialOutcome(c, r, resp, conn, thrown) ==
    CASE resp = None -> RequestCatch(thrown[1], c.timeoutMs)
      [] resp # None /\ ~AwaitsBody(resp[1].status) ->
            RequestReturn(toResult(resp[1].status, Unread, c.resultOptions), c.timeoutMs)
      [] resp # None /\ AwaitsBody(resp[1].status) /\ conn = "closed" ->
            RequestReturn(toResult(resp[1].status, ReadOk(resp[1].text), c.resultOptions),
                          c.timeoutMs)
      [] OTHER ->
            RequestReturn(toResult(resp[1].status, ReadFailed(thrown[1]), c.resultOptions),
                          c.timeoutMs)

\* every settled call has settled as it would have on a client of its own
\* of the same construction
CallsIndependent ==
    \A c \in Calls :
        pc[c] = "settled" =>
            outcome[c] = SequentialOutcome(SurpayClient(options), req[c], response[c],
                                           transport[c], fault[c])

\* C24: in every interleaving of concurrent calls on one client, each call
\* settles as its own request and its own transport outcome determine, and
\* no step of any call changes the client's base address, headers, deadline
\* or casing policy.
C24_CallsIndependent ==
    /\ []CallsIndependent
    /\ [][client' = client /\ options' = options]_vars
\* call 2 has settled with a Result while call 1, issued before it with
\* another request, has received another response and is still reading it
C24_Witness ==
    /\ pc[1] = "body"
    /\ pc[2] = "settled"
    /\ outcome[2].settled = "resolved"
    /\ req[1] # req[2]
    /\ response[2] # None
    /\ response[1] # response[2]

====
